---- MODULE Spec2Model ----
(***************************************************************************)
(* A model of 0x02-redis_basic: exercise.py (class Cache with the          *)
(* count_calls / call_history decorators) and web.py (data_cacher around   *)
(* get_page), both thin layers over a Redis client.                        *)
(*                                                                         *)
(* Redis strings are byte sequences (sequences of 0..255), Python text is  *)
(* a sequence of code points.  Python values are records                   *)
(* [tag, txt, num]; tag names the Python type.                             *)
(***************************************************************************)
EXTENDS Integers, Sequences, FiniteSets, TLC

\* ------------------------------------------------------------------ bounds
\* store calls made on one Cache instance
MaxCalls == 3
\* get_page calls made in one run of web.py
MaxFetch == 3
\* the integers -IntRange..IntRange, for the round trip through the store
IntRange == 12

\* ------------------------------------------------------- Python values
PyNone == [tag |-> "None", txt |-> <<>>, num |-> 0]
PyBytes(b) == [tag |-> "bytes", txt |-> b, num |-> 0]
PyStr(t) == [tag |-> "str", txt |-> t, num |-> 0]
PyInt(n) == [tag |-> "int", txt |-> <<>>, num |-> n]

\* The reply of GET for a key that does not exist (redis-py gives None).
\* Not a byte sequence, so it differs from every stored string.
Nil == <<-1>>

\* A counter key that does not exist.
Absent == -1

\* str.encode('utf-8') on a sequence of code points (up to U+FFFF).
RECURSIVE Utf8Encode(_)
Utf8Encode(t) ==
    IF t = <<>> THEN <<>>
    ELSE LET cp == Head(t)
             hd == IF cp < 128 THEN <<cp>>
                   ELSE IF cp < 2048
                        THEN <<192 + (cp \div 64), 128 + (cp % 64)>>
                        ELSE <<224 + (cp \div 4096),
                               128 + ((cp \div 64) % 64),
                               128 + (cp % 64)>>
         IN hd \o Utf8Encode(Tail(t))

\* bytes.decode('utf-8') on a well-formed byte sequence.
RECURSIVE Utf8Decode(_)
Utf8Decode(b) ==
    IF b = <<>> THEN <<>>
    ELSE IF b[1] < 128 THEN <<b[1]>> \o Utf8Decode(Tail(b))
    ELSE IF b[1] < 224
         THEN <<(b[1] - 192) * 64 + (b[2] - 128)>> \o Utf8Decode(Tail(Tail(b)))
         ELSE <<(b[1] - 224) * 4096 + (b[2] - 128) * 64 + (b[3] - 128)>>
              \o Utf8Decode(Tail(Tail(Tail(b))))

\* The decimal digits of a natural number, as text.
RECURSIVE Digits(_)
Digits(n) ==
    IF n < 10 THEN <<48 + n>> ELSE Digits(n \div 10) \o <<48 + (n % 10)>>

\* repr() of a Python value, for the values of Values below: text and bytes
\* of printable characters without quotes or backslashes, and integers.
Repr(v) ==
    CASE v.tag = "str" -> <<39>> \o v.txt \o <<39>>
      [] v.tag = "bytes" -> <<98, 39>> \o v.txt \o <<39>>
      [] v.tag = "int" -> IF v.num < 0 THEN <<45>> \o Digits(-v.num)
                          ELSE Digits(v.num)
      [] OTHER -> <<78, 111, 110, 101>>

\* str(args) for the one-element tuple args = (v,): "(" repr(v) ",)".
StrArgs(v) == <<40>> \o Repr(v) \o <<44, 41>>

\* A client that sends text without encoding it and drops numbers.
EncodeLossy(v) ==
    CASE v.tag = "bytes" -> v.txt
      [] v.tag = "str" -> v.txt
      [] OTHER -> <<>>

\* What the Redis client sends for a command argument: bytes as they are,
\* text encoded as UTF-8, a number as the bytes of its repr (floats, sent
\* like integers, are left out of Values).
Encode(v) ==
    CASE v.tag = "bytes" -> v.txt
      [] v.tag = "str" -> Utf8Encode(v.txt)
      [] v.tag = "int" -> Utf8Encode(Repr(v))
      [] OTHER -> <<>>

\* ------------------------------------------------------------ inputs
\* b"hi", "hé" (two bytes for the second character), 42 and -7.
Values ==
    { PyBytes(<<104, 105>>), PyStr(<<104, 233>>), PyInt(42), PyInt(-7) }

\* str(uuid.uuid4()): a random identifier; nothing in the code makes it
\* differ from an earlier one.  Identifier i is the text UuidStr(i).
Ids == {1, 2}
UuidStr(i) == <<96 + i>>

\* The threads that call into the module.  The sequential specifications
\* run the first one only.
Callers == {"c1", "c2"}
SeqCallers == {"c1"}

\* ------------------------------------------------------------- state
VARIABLES
    \* the Redis database of exercise.py
    data,       \* [Ids -> bytes or Nil]: the keys str(uuid)
    counter,    \* the key "Cache.store": an integer, or Absent
    inputs,     \* the list "Cache.store:inputs"
    outputs,    \* the list "Cache.store:outputs"
    \* the callers of Cache
    pc,         \* where each caller is inside store
    arg,        \* the argument of the store call in progress
    last,       \* the last operation each caller completed, and its result
    log,        \* the Redis commands of each caller's current or last store
    \* history of the run, for stating the properties
    callArgs,   \* arguments of the store calls started on this instance
    callRets,   \* identifiers returned by the store calls of this instance
    nfailed,    \* store calls of this instance that ended in an exception
    retired,    \* identifiers returned by store calls of earlier instances
    ticket,     \* the number, in callArgs, of each caller's store call
    outCalls,   \* the call numbers of the entries of outputs, in list order
    stdout,     \* the lines each caller's current or last call printed
    \* the Redis database of web.py
    page,       \* [Urls -> [val, ttl]]: the keys result:<url>
    count,      \* [Urls -> integer or Absent]: the keys count:<url>
    \* the callers of get_page
    fpc,        \* where each caller is inside data_cacher's invoker
    fcall,      \* the get_page call in progress
    flast,      \* the last get_page call each caller completed
    \* history of the run, for stating the properties
    fetches,    \* [Urls -> number of get_page(url) calls started]
    fetched,    \* [Urls -> number of times the decorated function ran]
    firstOut,   \* [Urls -> what the first completed get_page(url) returned]
    written,    \* [Urls -> the last result SETEX stored, and its kind]
    age         \* [Urls -> seconds since the last SETEX, up to TTL]

storeVars ==
    <<data, counter, inputs, outputs, pc, arg, last, log,
      callArgs, callRets, nfailed, retired, ticket, outCalls,
      stdout>>

pageVars ==
    <<page, count, fpc, fcall, flast, fetches, fetched, firstOut, written,
      age>>

vars == <<storeVars, pageVars>>

NoOp == [op |-> "none", fn |-> "None", ok |-> TRUE, key |-> 0, arg |-> PyNone,
         follows |-> FALSE, out |-> PyNone]

\* ------------------------------------------------- Redis commands
\* INCR: a missing key counts as 0.
\* An INCR that only creates the key.
IncrStuck(x) == IF x = Absent THEN 1 ELSE x
Incr(x) == IF x = Absent THEN 1 ELSE x + 1

\* The number a counter key reads as: 0 when the key does not exist.
CounterValue(x) == IF x = Absent THEN 0 ELSE x

\* RPUSH: append at the tail of the list.
\* LPUSH in place of RPUSH: the new entry goes to the head.
Lpush(list, b) == <<b>> \o list
Rpush(list, b) == Append(list, b)

\* GET: the stored bytes, or Nil.
\* A GET that never finds the key.
RedisGetMissing(d, k) == Nil
RedisGet(d, k) == d[k]

\* The expiration data_cacher gives every cached result, in seconds.
TTL == 10

\* A key result:<url> that does not exist.
NoEntry == [val |-> Nil, ttl |-> 0]

\* FLUSHDB: every key of the database is gone when the command returns
\* (flushdb(True) asks for FLUSHDB ASYNC, which unlinks the keys at once
\* and frees their memory later).
\* A flush that leaves the keys in place.
FlushKeepsData(d) == d
Flushdb(d) == [k \in DOMAIN d |-> Nil]

\* --------------------------------------------------------- exercise.py
\* Cache.__init__: a new connection, then flushdb.  Runs between calls.
Cache_init ==
    /\ \A c \in Callers : pc[c] = "idle"
    /\ \E c \in SeqCallers :
          last' = [last EXCEPT ![c] = [NoOp EXCEPT !.op = "new"]]
    /\ data' = Flushdb(data)
    /\ counter' = Absent
    /\ inputs' = <<>>
    /\ outputs' = <<>>
    /\ retired' = retired \cup {callRets[k] : k \in DOMAIN callRets}
    /\ callArgs' = <<>>
    /\ callRets' = <<>>
    /\ nfailed' = 0
    /\ outCalls' = <<>>
    /\ page' = [u \in DOMAIN page |-> NoEntry]
    /\ count' = [u \in DOMAIN count |-> Absent]
    /\ stdout' = [c \in Callers |-> <<>>]
    /\ UNCHANGED <<pc, arg, log, ticket>>
    /\ age' = [u \in DOMAIN age |-> TTL]
    /\ UNCHANGED <<fpc, fcall, flast, fetches, fetched, firstOut, written>>

\* call_history.invoker with the push of the input left out.
call_history_in_skip(c) ==
    /\ pc[c] = "idle"
    /\ Len(callArgs) < MaxCalls
    /\ \E v \in Values :
          /\ arg' = [arg EXCEPT ![c] = v]
          /\ callArgs' = Append(callArgs, v)
    /\ log' = [log EXCEPT ![c] = <<>>]
    /\ pc' = [pc EXCEPT ![c] = "count_calls"]
    /\ UNCHANGED <<data, counter, inputs, outputs, last, callRets, nfailed, retired>>
    /\ ticket' = [ticket EXCEPT ![c] = Len(callArgs) + 1]
    /\ stdout' = [stdout EXCEPT ![c] = <<>>]
    /\ UNCHANGED outCalls
    /\ UNCHANGED pageVars

\* call_history.invoker, first half: store(v) is entered through the
\* outermost decorator, which pushes str(args) on the input list.  (The
\* isinstance tests of both decorators are true for every Cache.)
call_history_in(c) ==
    /\ pc[c] = "idle"
    /\ Len(callArgs) < MaxCalls
    /\ \E v \in Values :
          /\ arg' = [arg EXCEPT ![c] = v]
          /\ callArgs' = Append(callArgs, v)
          /\ inputs' = Rpush(inputs, Utf8Encode(StrArgs(v)))
    /\ log' = [log EXCEPT ![c] = <<"RPUSH inputs">>]
    /\ pc' = [pc EXCEPT ![c] = "count_calls"]
    /\ UNCHANGED <<data, counter, outputs, last, callRets, nfailed, retired>>
    /\ ticket' = [ticket EXCEPT ![c] = Len(callArgs) + 1]
    /\ stdout' = [stdout EXCEPT ![c] = <<>>]
    /\ UNCHANGED outCalls
    /\ UNCHANGED pageVars

\* count_calls.invoker: INCR of the key named after the method.
count_calls(c) ==
    /\ pc[c] = "count_calls"
    /\ counter' = Incr(counter)
    /\ log' = [log EXCEPT ![c] = Append(@, "INCR")]
    /\ pc' = [pc EXCEPT ![c] = "store"]
    /\ UNCHANGED <<data, inputs, outputs, arg, last, callArgs, callRets, nfailed, retired>>
    /\ UNCHANGED <<ticket, outCalls, stdout>>
    /\ UNCHANGED pageVars

\* Cache.store writing under one fixed key whatever key it returns.
store_fixed_key(c) ==
    /\ pc[c] = "store"
    /\ \E id \in Ids :
          /\ data' = [data EXCEPT ![1] = Encode(arg[c])]
          /\ last' = [last EXCEPT ![c] =
                         [op |-> "store", fn |-> "None", ok |-> TRUE, key |-> id,
                          arg |-> arg[c], follows |-> FALSE,
                          out |-> PyStr(UuidStr(id))]]
    /\ log' = [log EXCEPT ![c] = Append(@, "SET")]
    /\ pc' = [pc EXCEPT ![c] = "call_history_out"]
    /\ UNCHANGED <<counter, inputs, outputs, arg, callArgs, callRets, nfailed, retired>>
    /\ UNCHANGED <<ticket, outCalls, stdout>>
    /\ UNCHANGED pageVars

\* Cache.store: a random key, SET key data.  The key is kept in last.
store(c) ==
    /\ pc[c] = "store"
    /\ \E id \in Ids :
          /\ data' = [data EXCEPT ![id] = Encode(arg[c])]
          /\ last' = [last EXCEPT ![c] =
                         [op |-> "store", fn |-> "None", ok |-> TRUE, key |-> id,
                          arg |-> arg[c], follows |-> FALSE,
                          out |-> PyStr(UuidStr(id))]]
    /\ log' = [log EXCEPT ![c] = Append(@, "SET")]
    /\ pc' = [pc EXCEPT ![c] = "call_history_out"]
    /\ UNCHANGED <<counter, inputs, outputs, arg, callArgs, callRets, nfailed, retired>>
    /\ UNCHANGED <<ticket, outCalls, stdout>>
    /\ UNCHANGED pageVars

\* Cache.store when SET raises (the connection drops, the server refuses
\* the write): the exception leaves both decorators, which catch nothing.
store_raises(c) ==
    /\ pc[c] = "store"
    /\ last' = [last EXCEPT ![c] =
                   [op |-> "store", fn |-> "None", ok |-> FALSE, key |-> 0,
                    arg |-> arg[c],
                    follows |-> FALSE, out |-> PyNone]]
    /\ nfailed' = nfailed + 1
    /\ pc' = [pc EXCEPT ![c] = "idle"]
    /\ UNCHANGED <<data, counter, inputs, outputs, arg, log, callArgs, callRets, retired>>
    /\ UNCHANGED <<ticket, outCalls, stdout>>
    /\ UNCHANGED pageVars

\* call_history.invoker, second half: push the returned key on the
\* output list and return it.
call_history_out(c) ==
    /\ pc[c] = "call_history_out"
    /\ outputs' = Rpush(outputs, Encode(last[c].out))
    /\ callRets' = Append(callRets, last[c].key)
    /\ log' = [log EXCEPT ![c] = Append(@, "RPUSH outputs")]
    /\ pc' = [pc EXCEPT ![c] = "idle"]
    /\ UNCHANGED <<data, counter, inputs, arg, last, callArgs, nfailed, retired>>
    /\ outCalls' = Append(outCalls, ticket[c])
    /\ UNCHANGED <<ticket, stdout>>
    /\ UNCHANGED pageVars

\* An exception leaving a call, named by its class.
PyRaise(cls) == [tag |-> cls, txt |-> <<>>, num |-> 0]

\* int(x) on bytes, for the forms the stored values take: an optional
\* sign and decimal digits.  Anything else is a ValueError.
IsDigits(b) == Len(b) > 0 /\ \A i \in 1..Len(b) : b[i] \in 48..57
IsIntLiteral(b) ==
    \/ IsDigits(b)
    \/ Len(b) > 1 /\ b[1] \in {43, 45} /\ IsDigits(Tail(b))

RECURSIVE DigitsValue(_)
DigitsValue(b) ==
    IF b = <<>> THEN 0
    ELSE DigitsValue(SubSeq(b, 1, Len(b) - 1)) * 10 + (b[Len(b)] - 48)

\* int() that drops the sign of a literal.
ParseIntUnsigned(b) ==
    IF b[1] \in {43, 45} THEN DigitsValue(Tail(b)) ELSE DigitsValue(b)

\* int(b) for a byte string b that is an integer literal.
ParseInt(b) ==
    IF b[1] = 45 THEN 0 - DigitsValue(Tail(b))
    ELSE IF b[1] = 43 THEN DigitsValue(Tail(b))
    ELSE DigitsValue(b)

\* A transform that passes a missing value through instead of failing.
TransformGuarded(fn, x) == x

\* The transform fn of Cache.get: None, get_str's lambda x: x.decode('utf-8')
\* or get_int's lambda x: int(x), applied to the reply whatever it is.
Transform(fn, x) ==
    CASE fn = "None" -> x
      [] fn = "get_str" -> IF x = PyNone THEN PyRaise("AttributeError")
                           ELSE PyStr(Utf8Decode(x.txt))
      [] fn = "get_int" -> IF x = PyNone THEN PyRaise("TypeError")
                           ELSE IF IsIntLiteral(x.txt)
                                THEN PyInt(ParseInt(x.txt))
                                ELSE PyRaise("ValueError")

\* Cache.get(key, fn): the reply of GET, transformed when fn is given.
Cache_get(d, k, fn) ==
    LET reply == RedisGet(d, k)
    IN Transform(fn, IF reply = Nil THEN PyNone ELSE PyBytes(reply))

\* What a completed read leaves in last.
ReadBy(c, k, fn) ==
    [op |-> "get", fn |-> fn, ok |-> TRUE, key |-> k,
     arg |-> last[c].arg,
     follows |-> (last[c].op = "store" /\ last[c].ok /\ last[c].key = k),
     out |-> Cache_get(data, k, fn)]

\* Cache.get(key) without a transform.
get(c) ==
    /\ pc[c] = "idle"
    /\ \E k \in Ids : last' = [last EXCEPT ![c] = ReadBy(c, k, "None")]
    /\ UNCHANGED <<data, counter, inputs, outputs, pc, arg, log,
                   callArgs, callRets, nfailed, retired>>
    /\ stdout' = [stdout EXCEPT ![c] = <<>>]
    /\ UNCHANGED <<ticket, outCalls>>
    /\ UNCHANGED pageVars

\* Cache.get_str(key).
get_str(c) ==
    /\ pc[c] = "idle"
    /\ \E k \in Ids : last' = [last EXCEPT ![c] = ReadBy(c, k, "get_str")]
    /\ UNCHANGED <<data, counter, inputs, outputs, pc, arg, log,
                   callArgs, callRets, nfailed, retired>>
    /\ stdout' = [stdout EXCEPT ![c] = <<>>]
    /\ UNCHANGED <<ticket, outCalls>>
    /\ UNCHANGED pageVars

\* Cache.get_int(key).
get_int(c) ==
    /\ pc[c] = "idle"
    /\ \E k \in Ids : last' = [last EXCEPT ![c] = ReadBy(c, k, "get_int")]
    /\ UNCHANGED <<data, counter, inputs, outputs, pc, arg, log,
                   callArgs, callRets, nfailed, retired>>
    /\ stdout' = [stdout EXCEPT ![c] = <<>>]
    /\ UNCHANGED <<ticket, outCalls>>
    /\ UNCHANGED pageVars

\* method.__qualname__ of the decorated method: the text "Cache.store".
QualName == <<67, 97, 99, 104, 101, 46, 115, 116, 111, 114, 101>>

\* The callables replay is handed: None, the plain function Cache.store
\* (no __self__), a method bound to an object whose _redis is not a Redis
\* client, and cache.store of a Cache.
Callables == {"None", "function", "foreign", "cache.store"}

\* The two early returns of replay.
IsBound(fn) == fn = "cache.store"

\* zip that pairs the first list with the second one read backwards.
ZipCrossed(a, b) ==
    [i \in 1..(IF Len(a) < Len(b) THEN Len(a) ELSE Len(b)) |->
        <<a[i], b[Len(b) + 1 - i]>>]

\* zip(a, b): the pairs at equal positions, as many as the shorter list has.
Zip(a, b) ==
    [i \in 1..(IF Len(a) < Len(b) THEN Len(a) ELSE Len(b)) |->
        <<a[i], b[i]>>]

\* int(GET) of the counter key when EXISTS says it is there, else 0.
ReplayCount(x) ==
    IF x = Absent THEN 0 ELSE ParseInt(Utf8Encode(Digits(x)))

\* '{} was called {} times:'.format(name, count)
ReplayHeader(n) ==
    QualName \o <<32, 119, 97, 115, 32, 99, 97, 108, 108, 101, 100, 32>>
             \o Digits(n) \o <<32, 116, 105, 109, 101, 115, 58>>

\* '{}(*{}) -> {}'.format(name, input.decode('utf-8'), output): the output
\* is formatted as the bytes object it is, b'...'.
ReplayLine(p) ==
    QualName \o <<40, 42>> \o Utf8Decode(p[1]) \o <<41, 32, 45, 62, 32>>
             \o Repr(PyBytes(p[2]))

\* Everything replay(fn) prints, line by line.
ReplayOutput(fn, cnt, ins, outs) ==
    IF ~IsBound(fn) THEN <<>>
    ELSE <<ReplayHeader(ReplayCount(cnt))>>
         \o [i \in 1..Len(Zip(ins, outs)) |-> ReplayLine(Zip(ins, outs)[i])]

\* replay(fn): EXISTS, GET and two LRANGE, then the printing.
replay(c) ==
    /\ pc[c] = "idle"
    /\ \E fn \in Callables :
          /\ stdout' = [stdout EXCEPT
                          ![c] = ReplayOutput(fn, counter, inputs, outputs)]
          /\ last' = [last EXCEPT
                        ![c] = [NoOp EXCEPT !.op = "replay", !.fn = fn]]
    /\ UNCHANGED <<data, counter, inputs, outputs, pc, arg, log,
                   callArgs, callRets, nfailed, retired>>
    /\ UNCHANGED <<ticket, outCalls>>
    /\ UNCHANGED pageVars

\* -------------------------------------------------------------- web.py
Urls == {"u1", "u2"}

\* response.text of a successful request: an empty body, "OK", "\u00e9".
Bodies == { <<>>, <<79, 75>>, <<233>> }

\* str(e) of a requests.RequestException: "404".
Errors == { <<52, 48, 52>> }

\* A failed request reported as empty text.
ErrorStringEmpty(e) == <<>>

\* f"Error fetching the URL: {e}"
ErrorString(e) ==
    <<69, 114, 114, 111, 114, 32, 102, 101, 116, 99, 104, 105, 110, 103, 32,
      116, 104, 101, 32, 85, 82, 76, 58, 32>> \o e

\* A test of the reply that takes every existing entry, b'' too, as a hit.
NotMissing(b) == b # Nil

\* `if result:` on the reply of GET: None and b'' are both false.
Truthy(b) == b # Nil /\ b # <<>>

\* SETEX key seconds value.
\* A SETEX that starts the expiration one second short.
SetexShort(seconds, b) == [val |-> b, ttl |-> seconds - 1]
Setex(seconds, b) == [val |-> b, ttl |-> seconds]

\* One second passes for a key with an expiration.
Expire(e) == IF e.ttl <= 1 THEN NoEntry ELSE [e EXCEPT !.ttl = @ - 1]

NoCall == [url |-> "u1", seen |-> "none", kind |-> "none", res |-> <<>>,
           err |-> FALSE]
NoFetch == [op |-> "none", url |-> "u1", seen |-> "none", kind |-> "none",
            invoked |-> FALSE,
            res |-> <<>>, err |-> FALSE, out |-> <<>>, after |-> NoEntry,
            age |-> 0]

\* One second of wall-clock time.
Tick ==
    /\ page' = [u \in Urls |-> Expire(page[u])]
    /\ age' = [u \in Urls |-> IF age[u] < TTL THEN age[u] + 1 ELSE TTL]
    /\ UNCHANGED <<count, fpc, fcall, flast, fetches, fetched, firstOut, written>>
    /\ UNCHANGED storeVars

\* invoker, line 40: INCR count:<url>, on every call.
invoker_incr(c) ==
    /\ fpc[c] = "idle"
    /\ \E u \in Urls :
          /\ fetches["u1"] + fetches["u2"] < MaxFetch
          /\ count' = [count EXCEPT ![u] = Incr(@)]
          /\ fetches' = [fetches EXCEPT ![u] = @ + 1]
          /\ fcall' = [fcall EXCEPT ![c] = [NoCall EXCEPT !.url = u]]
    /\ fpc' = [fpc EXCEPT ![c] = "get"]
    /\ UNCHANGED <<page, flast, fetched, firstOut, written>>
    /\ UNCHANGED age
    /\ UNCHANGED storeVars

\* An invoker whose cache hit starts the expiration of the entry anew.
invoker_get_touch(c) ==
    /\ fpc[c] = "get"
    /\ LET u == fcall[c].url
           reply == RedisGet([x \in Urls |-> page[x].val], u)
           seen == IF page[u].ttl > 0 THEN "alive"
                   ELSE IF written[u].kind = "none" THEN "never" ELSE "expired"
       IN IF Truthy(reply)
          THEN /\ flast' = [flast EXCEPT ![c] =
                               [op |-> "get_page", url |-> u, seen |-> seen,
                                kind |-> written[u].kind, invoked |-> FALSE, res |-> <<>>, err |-> FALSE,
                                out |-> Utf8Decode(reply), after |-> page[u],
                                age |-> age[u]]]
               /\ firstOut' = [firstOut EXCEPT ![u] =
                                  IF @ = PyNone THEN PyStr(Utf8Decode(reply)) ELSE @]
               /\ fpc' = [fpc EXCEPT ![c] = "idle"]
               /\ UNCHANGED fcall
               /\ page' = [page EXCEPT ![u].ttl = TTL]
          ELSE /\ fcall' = [fcall EXCEPT ![c].seen = seen,
                                          ![c].kind = written[u].kind]
               /\ fpc' = [fpc EXCEPT ![c] = "get_page"]
               /\ UNCHANGED <<flast, firstOut>>
               /\ UNCHANGED page
    /\ UNCHANGED <<count, fetches, fetched, written>>
    /\ UNCHANGED age
    /\ UNCHANGED storeVars

\* invoker, lines 42-44: GET result:<url>; a true reply is returned decoded.
invoker_get(c) ==
    /\ fpc[c] = "get"
    /\ LET u == fcall[c].url
           reply == RedisGet([x \in Urls |-> page[x].val], u)
           seen == IF page[u].ttl > 0 THEN "alive"
                   ELSE IF written[u].kind = "none" THEN "never" ELSE "expired"
       IN IF Truthy(reply)
          THEN /\ flast' = [flast EXCEPT ![c] =
                               [op |-> "get_page", url |-> u, seen |-> seen,
                                kind |-> written[u].kind, invoked |-> FALSE, res |-> <<>>, err |-> FALSE,
                                out |-> Utf8Decode(reply), after |-> page[u],
                                age |-> age[u]]]
               /\ firstOut' = [firstOut EXCEPT ![u] =
                                  IF @ = PyNone THEN PyStr(Utf8Decode(reply)) ELSE @]
               /\ fpc' = [fpc EXCEPT ![c] = "idle"]
               /\ UNCHANGED fcall
          ELSE /\ fcall' = [fcall EXCEPT ![c].seen = seen,
                                          ![c].kind = written[u].kind]
               /\ fpc' = [fpc EXCEPT ![c] = "get_page"]
               /\ UNCHANGED <<flast, firstOut>>
    /\ UNCHANGED <<page, count, fetches, fetched, written>>
    /\ UNCHANGED age
    /\ UNCHANGED storeVars

\* get_page, lines 64-67: the request succeeds and its text is returned.
get_page(c) ==
    /\ fpc[c] = "get_page"
    /\ \E body \in Bodies :
          fcall' = [fcall EXCEPT ![c].res = body, ![c].err = FALSE]
    /\ fetched' = [fetched EXCEPT ![fcall[c].url] = @ + 1]
    /\ fpc' = [fpc EXCEPT ![c] = "setex"]
    /\ UNCHANGED <<page, count, flast, fetches, firstOut, written>>
    /\ UNCHANGED age
    /\ UNCHANGED storeVars

\* get_page, lines 68-69: the request raises and the message is returned.
get_page_except(c) ==
    /\ fpc[c] = "get_page"
    /\ \E e \in Errors :
          fcall' = [fcall EXCEPT ![c].res = ErrorString(e), ![c].err = TRUE]
    /\ fetched' = [fetched EXCEPT ![fcall[c].url] = @ + 1]
    /\ fpc' = [fpc EXCEPT ![c] = "setex"]
    /\ UNCHANGED <<page, count, flast, fetches, firstOut, written>>
    /\ UNCHANGED age
    /\ UNCHANGED storeVars

\* invoker, lines 47-48: SETEX result:<url> 10 result; return result.
invoker_setex(c) ==
    /\ fpc[c] = "setex"
    /\ LET u == fcall[c].url
           res == fcall[c].res
       IN /\ page' = [page EXCEPT ![u] = Setex(TTL, Encode(PyStr(res)))]
          /\ written' = [written EXCEPT ![u] =
                            [kind |-> IF fcall[c].err THEN "error" ELSE "page",
                             text |-> res]]
          /\ flast' = [flast EXCEPT ![c] =
                          [op |-> "get_page", url |-> u, seen |-> fcall[c].seen,
                           kind |-> fcall[c].kind, invoked |-> TRUE, res |-> res, err |-> fcall[c].err,
                           out |-> res, after |-> page'[u], age |-> age[u]]]
          /\ firstOut' = [firstOut EXCEPT ![u] =
                             IF @ = PyNone THEN PyStr(res) ELSE @]
    /\ fpc' = [fpc EXCEPT ![c] = "idle"]
    /\ age' = [age EXCEPT ![fcall[c].url] = 0]
    /\ UNCHANGED <<count, fcall, fetches, fetched>>
    /\ UNCHANGED storeVars

\* ------------------------------------------------------ specifications
Init ==
    /\ data = [k \in Ids |-> Nil]
    /\ counter = Absent
    /\ inputs = <<>>
    /\ outputs = <<>>
    /\ pc = [c \in Callers |-> "idle"]
    /\ arg = [c \in Callers |-> PyNone]
    /\ last = [c \in Callers |-> IF c \in SeqCallers
                                 THEN [NoOp EXCEPT !.op = "new"] ELSE NoOp]
    /\ log = [c \in Callers |-> <<>>]
    /\ callArgs = <<>>
    /\ callRets = <<>>
    /\ nfailed = 0
    /\ retired = {}
    /\ ticket = [c \in Callers |-> 0]
    /\ outCalls = <<>>
    /\ stdout = [c \in Callers |-> <<>>]
    /\ page = [u \in Urls |-> NoEntry]
    /\ count = [u \in Urls |-> Absent]
    /\ fpc = [c \in Callers |-> "idle"]
    /\ fcall = [c \in Callers |-> NoCall]
    /\ flast = [c \in Callers |-> NoFetch]
    /\ fetches = [u \in Urls |-> 0]
    /\ fetched = [u \in Urls |-> 0]
    /\ firstOut = [u \in Urls |-> PyNone]
    /\ written = [u \in Urls |-> [kind |-> "none", text |-> <<>>]]
    /\ age = [u \in Urls |-> TTL]

\* One thread using a Cache: any sequence of constructions, stores and gets.
Next ==
    \/ Cache_init
    \/ \E c \in SeqCallers : call_history_in(c)
    \/ \E c \in SeqCallers : count_calls(c)
    \/ \E c \in SeqCallers : store(c)
    \/ \E c \in SeqCallers : store_raises(c)
    \/ \E c \in SeqCallers : call_history_out(c)
    \/ \E c \in SeqCallers : get(c)
    \/ \E c \in SeqCallers : get_str(c)
    \/ \E c \in SeqCallers : get_int(c)

Spec == Init /\ [][Next]_vars

\* One thread that stores and replays the history of store.
NextReplay ==
    \/ Cache_init
    \/ \E c \in SeqCallers : call_history_in(c)
    \/ \E c \in SeqCallers : count_calls(c)
    \/ \E c \in SeqCallers : store(c)
    \/ \E c \in SeqCallers : store_raises(c)
    \/ \E c \in SeqCallers : call_history_out(c)
    \/ \E c \in SeqCallers : replay(c)

SpecReplay == Init /\ [][NextReplay]_vars

\* One thread running web.py: any sequence of get_page calls, with time
\* passing between and inside them.
NextPage ==
    \/ Tick
    \/ \E c \in SeqCallers : invoker_incr(c)
    \/ \E c \in SeqCallers : invoker_get(c)
    \/ \E c \in SeqCallers : get_page(c)
    \/ \E c \in SeqCallers : get_page_except(c)
    \/ \E c \in SeqCallers : invoker_setex(c)

SpecPage == Init /\ [][NextPage]_vars

\* Several threads calling get_page within one TTL window: the Redis
\* commands and the requests of their calls interleave in any order and no
\* entry expires meanwhile.
NextPageConc ==
    \/ \E c \in Callers : invoker_incr(c)
    \/ \E c \in Callers : invoker_get(c)
    \/ \E c \in Callers : get_page(c)
    \/ \E c \in Callers : get_page_except(c)
    \/ \E c \in Callers : invoker_setex(c)

SpecPageConc == Init /\ [][NextPageConc]_vars

\* Several threads calling store on one Cache: their Redis commands
\* interleave in any order; no instance is constructed meanwhile.
NextConc ==
    \/ \E c \in Callers : call_history_in(c)
    \/ \E c \in Callers : count_calls(c)
    \/ \E c \in Callers : store(c)
    \/ \E c \in Callers : store_raises(c)
    \/ \E c \in Callers : call_history_out(c)

SpecConc == Init /\ [][NextConc]_vars

\* ---------------------------------------------------------- properties
AllIdle == \A c \in Callers : pc[c] = "idle"

\* C1 as stated: when store(v) returned id, a following get(id) without a
\* transform returns v itself.
C1_GetReturnsStoredValue ==
    \A c \in Callers :
        (last[c].op = "get" /\ last[c].fn = "None" /\ last[c].follows) =>
            last[c].out = last[c].arg

\* C1 as amended: when store(v) returned id, a following get(id) without a
\* transform returns the bytes the client wrote for v: v itself when v is
\* bytes, the UTF-8 encoding of v when v is text, the decimal text of v when
\* v is an integer.
C1_GetReturnsEncodedValue ==
    \A c \in Callers :
        (last[c].op = "get" /\ last[c].fn = "None" /\ last[c].follows) =>
            /\ last[c].out.tag = "bytes"
            /\ last[c].out = PyBytes(Encode(last[c].arg))
            /\ last[c].arg.tag = "bytes" => last[c].out = last[c].arg
            /\ last[c].arg = PyStr(<<104, 233>>) =>
                   last[c].out = PyBytes(<<104, 195, 169>>)
            /\ last[c].arg = PyInt(42) => last[c].out = PyBytes(<<52, 50>>)
            /\ last[c].arg = PyInt(-7) => last[c].out = PyBytes(<<45, 55>>)

C1_Witness ==
    \E c \in Callers :
        /\ last[c].op = "get" /\ last[c].fn = "None" /\ last[c].follows
        /\ last[c].arg = PyStr(<<104, 233>>)
        /\ last[c].out = PyBytes(<<104, 195, 169>>)

\* C2: between calls, the counter of store reads as the number of store
\* calls made on the instance since it was constructed (0 before the first).
C2_CounterEqualsCalls ==
    AllIdle => CounterValue(counter) = Len(callArgs)

C2_Witness ==
    AllIdle /\ Len(callArgs) = 3 /\ counter = 3

\* C3: after N sequential store calls that all returned, both histories
\* have length N, the k-th input entry is the text of the arguments of call
\* k and the k-th output entry is the identifier call k returned.
C3_HistoriesFollowCalls ==
    (AllIdle /\ nfailed = 0) =>
        /\ Len(inputs) = Len(callArgs)
        /\ Len(outputs) = Len(callArgs)
        /\ Len(callRets) = Len(callArgs)
        /\ \A k \in 1..Len(callArgs) :
              /\ inputs[k] = Utf8Encode(StrArgs(callArgs[k]))
              /\ outputs[k] = Utf8Encode(UuidStr(callRets[k]))

C3_Witness ==
    /\ AllIdle /\ nfailed = 0
    /\ Len(callArgs) = 3 /\ Len(outputs) = 3
    /\ callArgs[1] # callArgs[2] /\ callRets[2] # callRets[3]

\* C7: once a new Cache is constructed and before its first store call,
\* no key of the database is left: every identifier an earlier instance
\* returned reads as absent through get, the counter of store does not
\* exist and both histories are empty.
C7_ConstructionFlushes ==
    Len(callArgs) = 0 =>
        /\ \A id \in retired : Cache_get(data, id, "None") = PyNone
        /\ \A id \in Ids : data[id] = Nil
        /\ counter = Absent
        /\ inputs = <<>>
        /\ outputs = <<>>

C7_Witness ==
    /\ Len(callArgs) = 0
    /\ retired = Ids
    /\ \E c \in Callers : last[c].op = "new"

\* C9, for the states in which no store call is in progress: the input
\* history and the output history have equal length, also after a store
\* call whose write failed.
C9_HistoriesEqualLength ==
    AllIdle => Len(inputs) = Len(outputs)

\* C10 as stated: a store call issues INCR, then RPUSH on the inputs, then
\* SET, then RPUSH on the outputs.
C10_CountsBeforeLoggingInput ==
    \A c \in Callers :
        (pc[c] = "idle" /\ last[c].op = "store" /\ last[c].ok) =>
            log[c] = <<"INCR", "RPUSH inputs", "SET", "RPUSH outputs">>

\* C10 as amended: a store call issues RPUSH on the inputs first, then
\* INCR, then SET, then RPUSH on the outputs; while the call is between two
\* commands the database shows exactly the earlier ones.
C10_LogsInputBeforeCounting ==
    \A c \in Callers :
        /\ pc[c] = "count_calls" =>
              /\ log[c] = <<"RPUSH inputs">>
              /\ Len(inputs) = CounterValue(counter) + 1
        /\ pc[c] = "store" =>
              /\ log[c] = <<"RPUSH inputs", "INCR">>
              /\ Len(inputs) = CounterValue(counter)
              /\ Len(outputs) + nfailed + 1 = Len(inputs)
        /\ pc[c] = "call_history_out" =>
              /\ log[c] = <<"RPUSH inputs", "INCR", "SET">>
              /\ data[last[c].key] = Encode(arg[c])
              /\ Len(outputs) + nfailed + 1 = Len(inputs)
        /\ (pc[c] = "idle" /\ last[c].op = "store" /\ last[c].ok) =>
              log[c] = <<"RPUSH inputs", "INCR", "SET", "RPUSH outputs">>

C10_Witness ==
    \E c \in Callers :
        /\ pc[c] = "idle" /\ last[c].op = "store" /\ last[c].ok
        /\ Len(log[c]) = 4

\* C4: when the first get_page(url) ever is followed by a second one while
\* the entry written by the first is still in the database, the second
\* returns what the first returned, the decorated function has run once
\* and count:<url> is 2.
C4_SecondFetchServedFromCache ==
    \A c \in Callers :
        LET u == flast[c].url IN
        (fpc[c] = "idle" /\ flast[c].op = "get_page" /\ fetches[u] = 2
           /\ flast[c].seen = "alive") =>
            /\ ~flast[c].invoked
            /\ PyStr(flast[c].out) = firstOut[u]
            /\ fetched[u] = 1
            /\ count[u] = 2

\* C5: a get_page(url) that finds the entry of url expired runs the
\* decorated function again, returns its result and stores that result
\* with the full expiration of 10.
C5_ExpiredEntryIsRefetched ==
    \A c \in Callers :
        LET u == flast[c].url IN
        (flast[c].op = "get_page" /\ flast[c].seen = "expired") =>
            /\ flast[c].invoked
            /\ fetched[u] >= 2
            /\ flast[c].out = flast[c].res
            /\ flast[c].after.val = Utf8Encode(flast[c].res)
            /\ flast[c].after.ttl = 10

C5_Witness ==
    \E c \in Callers :
        /\ fpc[c] = "idle"
        /\ flast[c].op = "get_page" /\ flast[c].seen = "expired"
        /\ flast[c].out = <<79, 75>>
        /\ page[flast[c].url] = [val |-> <<79, 75>>, ttl |-> 10]

\* C6: a get_page(url) whose request fails returns the error text and
\* stores it like any result; while that entry is in the database every
\* get_page(url) returns the same text without running the decorated
\* function.
C6_ErrorIsCachedAndSticky ==
    \A c \in Callers :
        LET u == flast[c].url IN
        /\ (flast[c].op = "get_page" /\ flast[c].invoked /\ flast[c].err) =>
              /\ Len(flast[c].out) > 0
              /\ flast[c].out = flast[c].res
              /\ flast[c].after = [val |-> Utf8Encode(flast[c].out), ttl |-> TTL]
        /\ (flast[c].op = "get_page" /\ flast[c].seen = "alive"
              /\ flast[c].kind = "error") =>
              /\ ~flast[c].invoked
              /\ flast[c].out = written[u].text

C6_Witness ==
    \E c \in Callers :
        /\ flast[c].op = "get_page" /\ flast[c].seen = "alive"
        /\ flast[c].kind = "error"
        /\ ~flast[c].invoked
        /\ fetches[flast[c].url] = 3
        /\ flast[c].out = ErrorString(<<52, 48, 52>>)

\* C8: count:<url> reads as the number of get_page(url) calls started, in
\* every state: hits, misses, failed requests and expirations included.
C8_CountEqualsFetches ==
    \A u \in Urls : CounterValue(count[u]) = fetches[u]

C8_Witness ==
    \E u \in Urls :
        /\ count[u] = 3
        /\ fetched[u] = 2
        /\ written[u].kind = "error"
        /\ page[u] = NoEntry
        /\ \A c \in Callers : fpc[c] = "idle"

\* C11: a get_page(url) that finds an unexpired entry for url, whatever its
\* content, returns that entry decoded, does not run the decorated function
\* and leaves the entry as it is.
C11_UnexpiredEntryIsServed ==
    \A c \in Callers :
        (flast[c].op = "get_page" /\ flast[c].seen = "alive") =>
            /\ ~flast[c].invoked
            /\ flast[c].after.val # Nil
            /\ flast[c].out = Utf8Decode(flast[c].after.val)

\* C12, for the runs in which no write failed: whenever no store call is
\* in progress, the i-th entry of the output history is the identifier
\* returned by call i, the call whose arguments are the i-th entry of the
\* input history.
C12_HistoriesAligned ==
    (AllIdle /\ nfailed = 0) =>
        /\ Len(outCalls) = Len(outputs)
        /\ \A i \in 1..Len(inputs) : inputs[i] = Utf8Encode(StrArgs(callArgs[i]))
        /\ \A i, j \in 1..Len(outputs) :
              outCalls[j] = i => outputs[i] = outputs[j]

\* C13: once every store call of the concurrent callers has ended, the
\* counter equals the number of calls and the input history and the output
\* history each hold exactly one entry per call.
C13_OneEntryPerCall ==
    AllIdle =>
        /\ CounterValue(counter) = Len(callArgs)
        /\ Len(inputs) = Len(callArgs)
        /\ Len(outputs) = Len(callArgs)
        /\ \A i, j \in 1..Len(outCalls) : outCalls[i] = outCalls[j] => i = j

\* What the interleavings alone leave of C13: no INCR and no RPUSH is lost.
\* The counter and the input history count every call; the output history
\* holds one entry for every call that returned, none for a call whose
\* write raised.
NoCommandLost ==
    AllIdle =>
        /\ CounterValue(counter) = Len(callArgs)
        /\ Len(inputs) = Len(callArgs)
        /\ \A i \in 1..Len(inputs) : inputs[i] = Utf8Encode(StrArgs(callArgs[i]))
        /\ Len(outputs) = Len(callArgs) - nfailed
        /\ Len(outCalls) = Len(outputs)
        /\ \A i, j \in 1..Len(outCalls) : outCalls[i] = outCalls[j] => i = j
        /\ \A i \in 1..Len(outputs) : outputs[i] = Utf8Encode(UuidStr(callRets[i]))

\* C14: a read of an identifier that is not in the database returns None
\* from get without a transform, ends in AttributeError in get_str and in
\* TypeError in get_int (the transform is applied to None), and leaves the
\* database as it was.
C14_AbsentKeyRead ==
    [][\A c \in Callers :
          (last'[c] # last[c] /\ last'[c].op = "get"
             /\ data[last'[c].key] = Nil) =>
              /\ last'[c].fn = "None" => last'[c].out = PyNone
              /\ last'[c].fn = "get_str" =>
                     last'[c].out = PyRaise("AttributeError")
              /\ last'[c].fn = "get_int" =>
                     last'[c].out = PyRaise("TypeError")
              /\ UNCHANGED <<data, counter, inputs, outputs>>]_vars

C14_Witness ==
    \E c \in Callers :
        /\ last[c].op = "get" /\ last[c].fn = "get_int"
        /\ data[last[c].key] = Nil
        /\ last[c].out = PyRaise("TypeError")
        /\ Len(inputs) = 2 /\ counter = 2

\* The value of the k-th returned call is still the one under its key.
Kept(k) == data[callRets[k]] = Encode(callArgs[outCalls[k]])

\* A later store call drew the key of the k-th returned call again.
Redrawn(k) ==
    \/ \E j \in (k + 1)..Len(callRets) : callRets[j] = callRets[k]
    \/ \E c \in Callers :
          pc[c] = "call_history_out" /\ last[c].key = callRets[k]

C16_ReplayReportsHistory ==
    [][\A c \in Callers :
          (last'[c].op = "replay"
             /\ (last'[c] # last[c] \/ stdout'[c] # <<>>)) =>
              /\ UNCHANGED <<data, counter, inputs, outputs>>
              /\ last'[c].fn # "cache.store" => stdout'[c] = <<>>
              /\ last'[c].fn = "cache.store" =>
                    /\ Len(stdout'[c]) >= 1
                    /\ stdout'[c][1] =
                          ReplayHeader(IF counter = Absent THEN 0 ELSE counter)
                    /\ \/ Len(stdout'[c]) = 1 + Len(inputs)
                             /\ Len(inputs) <= Len(outputs)
                       \/ Len(stdout'[c]) = 1 + Len(outputs)
                             /\ Len(outputs) <= Len(inputs)
                    /\ \A i \in 1..(Len(stdout'[c]) - 1) :
                          stdout'[c][i + 1] =
                              QualName \o <<40, 42>> \o Utf8Decode(inputs[i])
                                  \o <<41, 32, 45, 62, 32, 98, 39>>
                                  \o outputs[i] \o <<39>>]_vars

C16_Witness ==
    \E c \in Callers :
        /\ last[c].op = "replay" /\ last[c].fn = "cache.store"
        /\ counter = 2 /\ nfailed = 0
        /\ Len(stdout[c]) = 3
        /\ callArgs = <<PyInt(42), PyStr(<<104, 233>>)>>
        /\ callRets = <<2, 1>>
        /\ stdout[c][3] =
              QualName \o <<40, 42, 40, 39, 104, 233, 39, 44, 41, 41,
                            32, 45, 62, 32, 98, 39, 97, 39>>

\* What get_int reads back when the integer n is what SET was given.
StoredThenRead(n) == Transform("get_int", PyBytes(Encode(PyInt(n))))

\* C17: when store(n) of an integer n returned id, the get_int(id) that
\* follows returns the integer n; the same holds for whichever integer of
\* -IntRange..IntRange the call had stored, since the decimal text the
\* store holds for it parses back to it.
C17_IntegerRoundTrip ==
    \A c \in Callers :
        (last[c].op = "get" /\ last[c].fn = "get_int" /\ last[c].follows
           /\ last[c].arg.tag = "int") =>
            /\ last[c].out.tag = "int"
            /\ last[c].out.num = last[c].arg.num
            /\ \A n \in (0 - IntRange)..IntRange :
                  StoredThenRead(n).tag = "int" /\ StoredThenRead(n).num = n

C17_Witness ==
    \E c \in Callers :
        /\ last[c].op = "get" /\ last[c].fn = "get_int" /\ last[c].follows
        /\ last[c].arg = PyInt(-7)
        /\ data[last[c].key] = <<45, 55>>
        /\ last[c].out = PyInt(-7)

\* C18: while store calls of several callers interleave on one instance,
\* the output list is never longer than the counter says and the counter
\* never exceeds the length of the input list, and every entry of the
\* output list is the identifier of a key the store holds.
C18_HistoryBoundsCounter ==
    /\ Len(outputs) <= (IF counter = Absent THEN 0 ELSE counter)
    /\ (IF counter = Absent THEN 0 ELSE counter) <= Len(inputs)
    /\ \A k \in 1..Len(outputs) :
          \E id \in Ids :
              /\ outputs[k] = <<96 + id>>
              /\ data[id] # Nil

C18_Witness ==
    /\ Len(outputs) = 1 /\ counter = 2 /\ Len(inputs) = 3
    /\ pc["c1"] = "store" /\ pc["c2"] = "count_calls"
    /\ outputs[1] = <<98>> /\ data[2] = <<45, 55>> /\ data[1] = Nil

\* C19: an entry lives for exactly TTL seconds from the SETEX that wrote
\* it, however many calls were served from it: while fewer than TTL seconds
\* have passed it is there with the rest of the TTL to run, from then on it
\* is gone, and no call is served from the cache TTL seconds or more after
\* the write.
C19_HitKeepsExpiration ==
    /\ \A u \in Urls :
          /\ age[u] \in 0..TTL
          /\ age[u] < TTL => page[u].val # Nil /\ page[u].ttl = TTL - age[u]
          /\ age[u] >= TTL => page[u] = NoEntry
    /\ \A c \in Callers :
          (flast[c].op = "get_page" /\ ~flast[c].invoked) =>
              /\ flast[c].age < TTL
              /\ flast[c].after.ttl = TTL - flast[c].age

C19_Witness ==
    \E c \in Callers :
        /\ flast[c].op = "get_page" /\ ~flast[c].invoked
        /\ flast[c].age = TTL - 1
        /\ fetches[flast[c].url] = 3 /\ fetched[flast[c].url] = 1
        /\ age[flast[c].url] = TTL /\ page[flast[c].url] = NoEntry

\* C20 as stated: of the callers of get_page(url) at most one at a time is
\* between a cache miss and the SETEX of its result, so the decorated
\* function runs once for a url and its TTL window.
C20_OneFetchPerWindow ==
    \A c, d \in Callers :
        (c # d /\ fpc[c] \in {"get_page", "setex"}
               /\ fpc[d] \in {"get_page", "setex"}) =>
            fcall[c].url # fcall[d].url

\* C20 as amended: each caller decides on the reply of its own GET alone.
\* It runs the decorated function exactly when that reply is missing or
\* empty, whatever the other callers are doing, and otherwise returns the
\* reply decoded without running the function; nothing makes the callers
\* of one TTL window share one run or one content.
C20_EachCallerDecidesOnItsGet ==
    [][\A c \in Callers :
          (fpc[c] = "get" /\ fpc'[c] # "get") =>
              LET reply == page[fcall[c].url].val
              IN /\ fpc'[c] = "get_page" <=> reply \in {Nil, <<>>}
                 /\ fpc'[c] = "idle" <=> reply \notin {Nil, <<>>}
                 /\ fpc'[c] = "idle" =>
                       /\ ~flast'[c].invoked
                       /\ flast'[c].out = Utf8Decode(reply)
                 /\ UNCHANGED <<page, fetched>>]_vars

\* Two callers ran the decorated function for one url within one second
\* and returned different contents; the entry is the later one's.
C20_Witness ==
    /\ flast["c1"].op = "get_page" /\ flast["c2"].op = "get_page"
    /\ flast["c1"].url = flast["c2"].url
    /\ flast["c1"].invoked /\ flast["c2"].invoked
    /\ flast["c1"].seen = "never" /\ flast["c2"].seen = "never"
    /\ flast["c1"].out = <<79, 75>> /\ flast["c2"].out = <<233>>
    /\ fetched[flast["c1"].url] = 2
    /\ page[flast["c1"].url] = [val |-> <<195, 169>>, ttl |-> TTL]

====
